---- MODULE Spec2Model ----
(***************************************************************************)
(* Batched, broadcast-aware matrix multiplication of tract                 *)
(* (core/src/ops/math/mat_mul.rs): shape inference, geometry, the generic  *)
(* evaluator, the two evaluators specialised on a constant B, fusion of a  *)
(* pointwise successor, pulsification and cost.                            *)
(*                                                                         *)
(* Tensors are row-major flat sequences of integers with a shape; views    *)
(* are (ptr, shape, strides) over such a sequence, offsets counted from 0. *)
(***************************************************************************)
EXTENDS Integers, Sequences, FiniteSets, TLC

\* ------------------------------------------------------------- bounds
MaxRank == 4
MaxDim == 3
MaxElems == 4
MaxFuse == 2
MaxStream == 4

\* element patterns of the input tensors, and the values an uninitialized
\* or out-of-bounds memory cell may turn out to hold
Seeds == {0, 1}
Junk == {-7, 11}

\* ------------------------------------------------------------- helpers
RECURSIVE Prod(_)
Prod(s) == IF Len(s) = 0 THEN 1 ELSE Head(s) * Prod(Tail(s))

Ones(n) == [i \in 1..n |-> 1]

Min2(x, y) == IF x < y THEN x ELSE y
Max2(x, y) == IF x > y THEN x ELSE y

\* shapes of rank r with every dim in 1..MaxDim
RECURSIVE ShapesOfRank(_)
ShapesOfRank(r) ==
    IF r = 0 THEN {<<>>}
    ELSE {<<d>> \o s : d \in 1..MaxDim, s \in ShapesOfRank(r - 1)}

Shapes == {s \in UNION {ShapesOfRank(r) : r \in 0..MaxRank} : Prod(s) <= MaxElems}

\* element strides of a standard (row-major, contiguous) layout
Strides(shape) == [i \in 1..Len(shape) |-> Prod(SubSeq(shape, i + 1, Len(shape)))]

\* the multi-index of the i-th element (from 0) of `shape`, row-major
Unravel(i, shape) == [x \in 1..Len(shape) |-> (i \div Strides(shape)[x]) % shape[x]]

\* ndarray::indices: every multi-index of `shape`, in row-major order
indices(shape) == [i \in 1..Prod(shape) |-> Unravel(i - 1, shape)]

\* a tensor of the given shape whose elements follow the pattern `seed`
TensorA(shape, seed) == [shape |-> shape, data |-> [i \in 1..Prod(shape) |-> i - 2 * seed]]
TensorB(shape) == [shape |-> shape, data |-> [i \in 1..Prod(shape) |-> 2 * i - 3]]

\* ------------------------------------------------------ shape inference
\* crate::broadcast::multi_broadcast on two prefixes of equal length
BroadcastOk(p, q) == \A i \in 1..Len(p) : p[i] = q[i] \/ p[i] = 1 \/ q[i] = 1
multi_broadcast(p, q) == [i \in 1..Len(p) |-> IF p[i] # 1 THEN p[i] ELSE q[i]]

NoShapes(st) == [status |-> st, a |-> <<>>, b |-> <<>>, c |-> <<>>]

Prefix(shape) == SubSeq(shape, 1, Len(shape) - 2)

\* ashape.insert(0, 1) while the rank is below n
LeftPad(shape, n) == IF Len(shape) < n THEN Ones(n - Len(shape)) \o shape ELSE shape

\* the broadcast of the prefixes and the resulting shapes, ranks made equal
InferNormalized(ashape, bshape) ==
    IF Len(ashape) < 2
    THEN NoShapes("panic")   \* ashape.len() - 2 underflows: both ranks were 0
    ELSE IF ~BroadcastOk(Prefix(ashape), Prefix(bshape))
    THEN NoShapes("broadcast")
    ELSE [status |-> "ok", a |-> ashape, b |-> bshape,
          c |-> multi_broadcast(Prefix(ashape), Prefix(bshape))
                  \o <<ashape[Len(ashape) - 1], bshape[Len(bshape)]>>]

\* after the two `if len() < 2` insertions
InferPadded(a1, b1) == InferNormalized(LeftPad(a1, Len(b1)), LeftPad(b1, Len(a1)))

infer_shapes(ashape, bshape) ==
    InferPadded(IF Len(ashape) < 2 THEN <<1>> \o ashape ELSE ashape,
                IF Len(bshape) < 2 THEN Append(bshape, 1) ELSE bshape)

\* ------------------------------------------------------------- geometry
\* bc_shape.iter().rev().scan(1, ..).skip(2): strides of the prefix axes,
\* innermost prefix axis first
StridePrefix(shape) ==
    [i \in 1..(Len(shape) - 2) |-> Prod(SubSeq(shape, Len(shape) - i, Len(shape)))]

\* T::mmm(m, k, n)
Mmm(m, k, n) == [m |-> m, k |-> k, n |-> n]

NoGeo(st) ==
    [status |-> st, m |-> 0, k |-> 0, n |-> 0, mm |-> Mmm(0, 0, 0),
     a_shape |-> <<>>, b_shape |-> <<>>, bc_a_shape |-> <<>>, bc_b_shape |-> <<>>,
     c_shape |-> <<>>, c_shape_prefix |-> <<>>,
     a_stride_prefix |-> <<>>, b_stride_prefix |-> <<>>, c_stride_prefix |-> <<>>]

\* the Geo built from the inferred shapes s
GeoOf(s, ashape, bshape) ==
    IF s.status # "ok" THEN NoGeo(s.status)
    ELSE [status |-> "ok",
          m |-> s.a[Len(s.a) - 1], k |-> s.a[Len(s.a)], n |-> s.b[Len(s.b)],
          mm |-> Mmm(s.a[Len(s.a) - 1], s.a[Len(s.a)], s.b[Len(s.b)]),
          a_shape |-> ashape, b_shape |-> bshape,
          bc_a_shape |-> s.a, bc_b_shape |-> s.b,
          c_shape |-> s.c, c_shape_prefix |-> Prefix(s.c),
          a_stride_prefix |-> StridePrefix(s.a),
          b_stride_prefix |-> StridePrefix(s.b),
          c_stride_prefix |-> StridePrefix(s.c)]

\* Geo::new
GeoNew(ashape, bshape) == GeoOf(infer_shapes(ashape, bshape), ashape, bshape)

\* ------------------------------------------------------- views, memory
\* an ndarray view in standard layout over a buffer of the given shape
View(shape) == [ptr |-> 0, shape |-> shape, strides |-> Strides(shape)]

\* slice_axis_inplace(Axis(axis), d..=d); axes are counted from 1 here
slice_axis_inplace(v, axis, d) ==
    [v EXCEPT !.ptr = @ + d * v.strides[axis], !.shape[axis] = 1]

\* a variant that slices an operand at the index itself, as for the output
RECURSIVE SliceOperandExact(_, _, _)
SliceOperandExact(v, prefix, axis) ==
    IF axis > Len(prefix) THEN v
    ELSE SliceOperandExact(slice_axis_inplace(v, axis, prefix[axis]), prefix, axis + 1)

\* the slicing loop of a batch cell on an operand: index min(dim, len - 1)
RECURSIVE SliceOperand(_, _, _)
SliceOperand(v, prefix, axis) ==
    IF axis > Len(prefix) THEN v
    ELSE SliceOperand(
            slice_axis_inplace(v, axis, Min2(prefix[axis], v.shape[axis] - 1)),
            prefix, axis + 1)

\* the slicing loop of a batch cell on the output: index dim exactly
RECURSIVE SliceOutput(_, _, _)
SliceOutput(v, prefix, axis) ==
    IF axis > Len(prefix) THEN v
    ELSE SliceOutput(slice_axis_inplace(v, axis, prefix[axis]), prefix, axis + 1)

\* a raw read at element offset `off`; outside the buffer it yields `junk`
Rd(mem, off, junk) == IF off + 1 \in 1..Len(mem) THEN mem[off + 1] ELSE junk

\* does reading a rows x cols matrix at ptr with these strides leave the buffer
ReadsOutside(mem, ptr, rows, cols, rs, cs) ==
    rows > 0 /\ cols > 0 /\ ptr + (rows - 1) * rs + (cols - 1) * cs >= Len(mem)

\* ----------------------------------------------------------- microkernel
\* packed A is one panel stored column by column, packed B one panel stored
\* row by row
a_pack_len(mm) == mm.m * mm.k
b_pack_len(mm) == mm.k * mm.n

PackA(mm, mem, ptr, rs, cs, junk) ==
    [x \in 1..a_pack_len(mm) |->
        Rd(mem, ptr + ((x - 1) % mm.m) * rs + ((x - 1) \div mm.m) * cs, junk)]

PackB(mm, mem, ptr, rs, cs, junk) ==
    [x \in 1..b_pack_len(mm) |->
        Rd(mem, ptr + ((x - 1) \div mm.n) * rs + ((x - 1) % mm.n) * cs, junk)]

RECURSIVE Dot(_, _, _, _, _, _)
Dot(mm, pa, pb, i, j, kk) ==
    IF kk = mm.k THEN 0
    ELSE pa[kk * mm.m + i + 1] * pb[kk * mm.n + j + 1] + Dot(mm, pa, pb, i, j, kk + 1)

\* FusedSpec variants
PerColMul(vec) == [kind |-> "PerColMul", vec |-> vec, s |-> 0]
PerColAdd(vec) == [kind |-> "PerColAdd", vec |-> vec, s |-> 0]
FMax(s) == [kind |-> "Max", vec |-> <<>>, s |-> s]
FMin(s) == [kind |-> "Min", vec |-> <<>>, s |-> s]

ApplyFused(f, v, j) ==
    CASE f.kind = "PerColMul" -> v * f.vec[j + 1]
      [] f.kind = "PerColAdd" -> v + f.vec[j + 1]
      [] f.kind = "Max" -> Max2(v, f.s)
      [] f.kind = "Min" -> Min2(v, f.s)

\* the post-ops in the order given
RECURSIVE ApplyPostOps(_, _, _)
ApplyPostOps(ops, v, j) ==
    IF Len(ops) = 0 THEN v ELSE ApplyPostOps(Tail(ops), ApplyFused(Head(ops), v, j), j)

\* the cell (i, j) of the tile that is stored at element offset off, if any
CellAt(mm, cptr, crs, ccs, off) ==
    {ij \in (0..(mm.m - 1)) \X (0..(mm.n - 1)) : cptr + ij[1] * crs + ij[2] * ccs = off}

\* mm.run: C <- A.B, then the post-ops, written at cptr with strides (crs, ccs)
Run(mm, pa, pb, cmem, cptr, crs, ccs, ops) ==
    [x \in 1..Len(cmem) |->
        IF CellAt(mm, cptr, crs, ccs, x - 1) = {} THEN cmem[x]
        ELSE \* any of the cells stored there
             CHOOSE v \in {ApplyPostOps(ops, Dot(mm, pa, pb, ij[1], ij[2], 0), ij[2]) :
                              ij \in CellAt(mm, cptr, crs, ccs, x - 1)} : TRUE]

\* pack / run on the two trailing axes of a view sliced down to one cell
PackAView(mm, mem, v, p, junk) ==
    PackA(mm, mem, v.ptr, v.strides[p + 1], v.strides[p + 2], junk)
PackBView(mm, mem, v, p, junk) ==
    PackB(mm, mem, v.ptr, v.strides[p + 1], v.strides[p + 2], junk)
RunView(mm, pa, pb, cmem, v, p, ops) ==
    Run(mm, pa, pb, cmem, v.ptr, v.strides[p + 1], v.strides[p + 2], ops)
\* the element offsets mm.run stores to, one per cell of the m x n tile
Stores(mm, cptr, crs, ccs) ==
    [x \in 1..(mm.m * mm.n) |-> cptr + ((x - 1) \div mm.n) * crs + ((x - 1) % mm.n) * ccs]
StoresView(mm, v, p) == Stores(mm, v.ptr, v.strides[p + 1], v.strides[p + 2])
ViewReadsOutside(mm, mem, v, p) ==
    ReadsOutside(mem, v.ptr, mm.k, mm.n, v.strides[p + 1], v.strides[p + 2])

\* -------------------------------------------------------- generic eval_t
\* Array::uninitialized: every cell holds whatever the memory held
Uninitialized(shape, junk) == [i \in 1..Prod(shape) |-> junk]

Failed(st) == [status |-> st, shape |-> <<>>, data |-> <<>>]

\* one iteration of the batch loop
EvalCell(g, amem, bmem, cmem, prefix, junk) ==
    RunView(g.mm,
            PackAView(g.mm, amem, SliceOperand(View(g.bc_a_shape), prefix, 1), Len(prefix), junk),
            PackBView(g.mm, bmem, SliceOperand(View(g.bc_b_shape), prefix, 1), Len(prefix), junk),
            cmem, SliceOutput(View(g.c_shape), prefix, 1), Len(prefix), <<>>)

\* what one iteration of the batch loop does: the index it is for, where the
\* sliced views of A and B start, the offsets of C that run stores to, and
\* what a read outside B yielded
StepOf(g, prefix, junk) ==
    [prefix |-> prefix,
     a_ptr |-> SliceOperand(View(g.bc_a_shape), prefix, 1).ptr,
     b_ptr |-> SliceOperand(View(g.bc_b_shape), prefix, 1).ptr,
     stores |-> StoresView(g.mm, SliceOutput(View(g.c_shape), prefix, 1), Len(prefix)),
     junk |-> junk]

\* does the iteration for `prefix` read B outside its buffer
CellReadsOutside(g, bmem, prefix) ==
    ViewReadsOutside(g.mm, bmem, SliceOperand(View(g.bc_b_shape), prefix, 1), Len(prefix))

RECURSIVE EvalLoop(_, _, _, _, _, _)
EvalLoop(g, amem, bmem, cmem, i, junk) ==
    IF i > Prod(g.c_shape_prefix) THEN cmem
    ELSE EvalLoop(g, amem, bmem,
                  EvalCell(g, amem, bmem, cmem, indices(g.c_shape_prefix)[i], junk),
                  i + 1, junk)

EvalWith(g, at, bt, junk) ==
    IF g.status # "ok" THEN Failed(g.status)
    ELSE [status |-> "ok", shape |-> g.c_shape,
          data |-> EvalLoop(g, at.data, bt.data, Uninitialized(g.c_shape, junk), 1, junk)]

\* the whole of eval_t, as the loop below runs it step by step
eval_t(at, bt, junk) == EvalWith(GeoNew(at.shape, bt.shape), at, bt, junk)

\* ----------------------------------------------- MatMulUnaryImplASimpleB
NoOp(st) ==
    [kind |-> st, geo |-> NoGeo("none"), packed |-> <<>>,
     a_shape |-> <<>>, c_shape |-> <<>>, non_linear |-> <<>>]

\* the op built from the external geometry and the internal geometry g
SimpleBOf(c_shape, g, ashape, bt, junk) ==
    [kind |-> "SimpleB", geo |-> g,
     packed |-> PackBView(g.mm, bt.data, View(bt.shape), 0, junk),
     a_shape |-> ashape, c_shape |-> c_shape, non_linear |-> <<>>]

\* a variant that keeps A's own m instead of collapsing the batch axes into it
SimpleBInternalUncollapsed(geo_ext, ashape, bt, junk) ==
    IF geo_ext.status # "ok" THEN NoOp(geo_ext.status)
    ELSE SimpleBOf(geo_ext.c_shape,
                   GeoNew(<<geo_ext.m, geo_ext.k>>, bt.shape),
                   ashape, bt, junk)

\* the internal geometry: A seen as [a_len / k, k]
SimpleBInternal(geo_ext, ashape, bt, junk) ==
    IF geo_ext.status # "ok" THEN NoOp(geo_ext.status)
    ELSE SimpleBOf(geo_ext.c_shape,
                   GeoNew(<<Prod(ashape) \div geo_ext.k, geo_ext.k>>, bt.shape),
                   ashape, bt, junk)

\* MatMulUnaryImplASimpleB::new(a_shape, b), b of rank 2
SimpleBNew(ashape, bt, junk) == SimpleBInternal(GeoNew(ashape, bt.shape), ashape, bt, junk)

\* MatMulUnaryImplASimpleB::eval
SimpleBEval(o, at, junk) ==
    [status |-> "ok", shape |-> o.c_shape,
     data |-> Run(o.geo.mm, PackA(o.geo.mm, at.data, 0, o.geo.k, 1, junk), o.packed,
                  Uninitialized(o.c_shape, junk), 0, o.geo.n, 1, o.non_linear)]

\* a variant that counts one multiply-add per output element
SimpleBCostPerElement(o) == o.geo.mm.m * o.geo.mm.n

\* MatMulUnaryImplASimpleB::cost
SimpleBCost(o) == o.geo.mm.m * o.geo.mm.n * o.geo.mm.k

\* ------------------------------------------------------ MatMulUnaryImplA
\* packed_bs with `tile` written at element offset off
StoreTile(packed_bs, tile, off) ==
    [x \in 1..Len(packed_bs) |->
        IF x - 1 - off \in 0..(Len(tile) - 1) THEN tile[x - off] ELSE packed_bs[x]]

\* the packing loop: tile ix (from 1) goes to offset (ix - 1) * packed_b_len
RECURSIVE PackTiles(_, _, _, _, _)
PackTiles(g, bt, packed_bs, ix, junk) ==
    IF ix > Prod(Prefix(g.b_shape)) THEN packed_bs
    ELSE PackTiles(g, bt,
            StoreTile(packed_bs,
                      PackBView(g.mm, bt.data,
                                SliceOutput(View(bt.shape), indices(Prefix(g.b_shape))[ix], 1),
                                Len(g.b_shape) - 2, junk),
                      (ix - 1) * b_pack_len(g.mm)),
            ix + 1, junk)

\* the shape of packed_bs
PackedBsShape(g) == Append(Prefix(g.bc_b_shape), b_pack_len(g.mm))

ImplAOf(g, ashape, bt, junk) ==
    IF g.status # "ok" THEN NoOp(g.status)
    ELSE IF Len(g.b_shape) < 2
    THEN NoOp("panic")   \* geo.b_shape.len() - 2 underflows
    ELSE [kind |-> "ImplA", geo |-> g,
          packed |-> PackTiles(g, bt, Uninitialized(PackedBsShape(g), junk), 1, junk),
          a_shape |-> ashape, c_shape |-> g.c_shape, non_linear |-> <<>>]

\* MatMulUnaryImplA::new(a_shape, b)
ImplANew(ashape, bt, junk) == ImplAOf(GeoNew(ashape, bt.shape), ashape, bt, junk)

\* the tile of packed_bs that starts at ptr
TileAt(packed_bs, len, ptr, junk) == [x \in 1..len |-> Rd(packed_bs, ptr + x - 1, junk)]

ImplACell(o, amem, cmem, prefix, junk) ==
    RunView(o.geo.mm,
            PackAView(o.geo.mm, amem, SliceOperand(View(o.geo.bc_a_shape), prefix, 1),
                      Len(prefix), junk),
            TileAt(o.packed, b_pack_len(o.geo.mm),
                   SliceOperand(View(PackedBsShape(o.geo)), prefix, 1).ptr, junk),
            cmem, SliceOutput(View(o.geo.c_shape), prefix, 1), Len(prefix), <<>>)

RECURSIVE ImplALoop(_, _, _, _, _)
ImplALoop(o, amem, cmem, i, junk) ==
    IF i > Prod(o.geo.c_shape_prefix) THEN cmem
    ELSE ImplALoop(o, amem,
                   ImplACell(o, amem, cmem, indices(o.geo.c_shape_prefix)[i], junk),
                   i + 1, junk)

\* MatMulUnaryImplA::eval
ImplAEval(o, at, junk) ==
    [status |-> "ok", shape |-> o.geo.c_shape,
     data |-> ImplALoop(o, at.data, Uninitialized(o.geo.c_shape, junk), 1, junk)]

\* MatMulUnaryImplA::cost
ImplACost(o) ==
    o.geo.mm.m * o.geo.mm.n * o.geo.mm.k * Prod(o.geo.c_shape_prefix)

\* MatMul::cost
CostOf(s) ==
    IF s.status # "ok" THEN [status |-> s.status, fma |-> 0]
    ELSE [status |-> "ok",
          fma |-> Prod(Prefix(s.c)) * s.a[Len(s.a) - 1] * s.a[Len(s.a)] * s.b[Len(s.b)]]

MatMulCost(ashape, bshape) == CostOf(infer_shapes(ashape, bshape))

\* MatMulUnaryA::codegen<T>(a_shape): the implementation chosen for b
Codegen(ashape, bt, junk) ==
    IF Len(bt.shape) = 2 THEN SimpleBNew(ashape, bt, junk) ELSE ImplANew(ashape, bt, junk)

\* packing B reads k rows of n elements from every batch cell of B: does the
\* last of them end outside B
PackingReadsOutside(g, bt) ==
    /\ g.status = "ok"
    /\ Len(bt.shape) >= 2
    /\ g.k > bt.shape[Len(bt.shape) - 1]

\* --------------------------------------------------------------- fusion
\* successor ops of the graph: UnaryAOp (elementwise binary with a constant
\* b), ScalarMax, ScalarMin, ScalarMinMax, and any other op
UnaryAOp(mini_op, bshape, bdata) ==
    [kind |-> "UnaryAOp", mini_op |-> mini_op, b_shape |-> bshape, b |-> bdata,
     min |-> 0, max |-> 0]
ScalarMax(v) ==
    [kind |-> "ScalarMax", mini_op |-> "", b_shape |-> <<>>, b |-> <<>>, min |-> 0, max |-> v]
ScalarMin(v) ==
    [kind |-> "ScalarMin", mini_op |-> "", b_shape |-> <<>>, b |-> <<>>, min |-> v, max |-> 0]
ScalarMinMax(mn, mx) ==
    [kind |-> "ScalarMinMax", mini_op |-> "", b_shape |-> <<>>, b |-> <<>>,
     min |-> mn, max |-> mx]
OtherOp ==
    [kind |-> "Other", mini_op |-> "", b_shape |-> <<>>, b |-> <<>>, min |-> 0, max |-> 0]

\* model.single_succ(node.id): the successor, when there is exactly one
single_succ(succs) ==
    IF Len(succs) = 1 THEN [some |-> TRUE, op |-> succs[1]]
    ELSE [some |-> FALSE, op |-> OtherOp]

NoMicroOp == [some |-> FALSE, ops |-> <<>>]
SomeMicroOp(ops) == [some |-> TRUE, ops |-> ops]

\* a variant of the closure that emits the two post-ops of a clamp as Max, Min
fused_micro_op_MaxFirst(o, succ) ==
    IF succ.kind = "UnaryAOp"
    THEN IF succ.b_shape = <<o.geo.n>>
         THEN IF succ.mini_op = "Mul" THEN SomeMicroOp(<<PerColMul(succ.b)>>)
              ELSE IF succ.mini_op = "Add" THEN SomeMicroOp(<<PerColAdd(succ.b)>>)
              ELSE NoMicroOp
         ELSE NoMicroOp
    ELSE IF succ.kind = "ScalarMax" THEN SomeMicroOp(<<FMax(succ.max)>>)
    ELSE IF succ.kind = "ScalarMin" THEN SomeMicroOp(<<FMin(succ.min)>>)
    ELSE IF succ.kind = "ScalarMinMax" THEN SomeMicroOp(<<FMax(succ.max), FMin(succ.min)>>)
    ELSE NoMicroOp

\* a variant of the closure that does not compare the constant's shape with [n]
fused_micro_op_AnyShape(o, succ) ==
    IF succ.kind = "UnaryAOp"
    THEN IF succ.mini_op = "Mul" THEN SomeMicroOp(<<PerColMul(succ.b)>>)
         ELSE IF succ.mini_op = "Add" THEN SomeMicroOp(<<PerColAdd(succ.b)>>)
         ELSE NoMicroOp
    ELSE IF succ.kind = "ScalarMax" THEN SomeMicroOp(<<FMax(succ.max)>>)
    ELSE IF succ.kind = "ScalarMin" THEN SomeMicroOp(<<FMin(succ.min)>>)
    ELSE IF succ.kind = "ScalarMinMax" THEN SomeMicroOp(<<FMin(succ.min), FMax(succ.max)>>)
    ELSE NoMicroOp

\* the closure of fuse: the post-ops that stand for the successor
fused_micro_op(o, succ) ==
    IF succ.kind = "UnaryAOp"
    THEN IF succ.b_shape = <<o.geo.n>>
         THEN IF succ.mini_op = "Mul" THEN SomeMicroOp(<<PerColMul(succ.b)>>)
              ELSE IF succ.mini_op = "Add" THEN SomeMicroOp(<<PerColAdd(succ.b)>>)
              ELSE NoMicroOp
         ELSE NoMicroOp
    ELSE IF succ.kind = "ScalarMax" THEN SomeMicroOp(<<FMax(succ.max)>>)
    ELSE IF succ.kind = "ScalarMin" THEN SomeMicroOp(<<FMin(succ.min)>>)
    ELSE IF succ.kind = "ScalarMinMax" THEN SomeMicroOp(<<FMin(succ.min), FMax(succ.max)>>)
    ELSE NoMicroOp

NoPatch(st) == [status |-> st, op |-> NoOp("none")]

\* a variant that carries only the new post-ops
FusedOpReplacing(o, micro) == [o EXCEPT !.non_linear = micro]

\* Self { non_linear: ops, ..self.clone() }
FusedOp(o, micro) == [o EXCEPT !.non_linear = o.non_linear \o micro]

\* MatMulUnaryImplASimpleB::fuse: the patch, if any
PatchOf(o, f) ==
    IF f.some THEN [status |-> "some", op |-> FusedOp(o, f.ops)] ELSE NoPatch("none")

FuseWith(o, s) == IF ~s.some THEN NoPatch("none") ELSE PatchOf(o, fused_micro_op(o, s.op))

fuse(o, succs) == FuseWith(o, single_succ(succs))

\* what the successor ops compute on a tensor whose last axis has n elements
ApplySuccAt(succ, v, col) ==
    CASE succ.kind = "UnaryAOp" /\ succ.mini_op = "Mul" -> v * succ.b[col]
      [] succ.kind = "UnaryAOp" /\ succ.mini_op = "Add" -> v + succ.b[col]
      [] succ.kind = "UnaryAOp" /\ succ.mini_op = "Sub" -> v - succ.b[col]
      [] succ.kind = "ScalarMax" -> Max2(v, succ.max)
      [] succ.kind = "ScalarMin" -> Min2(v, succ.min)
      [] succ.kind = "ScalarMinMax" -> Min2(Max2(v, succ.max), succ.min)
      [] OTHER -> v

ApplySucc(succ, t) ==
    [t EXCEPT !.data =
        [i \in 1..Len(t.data) |->
            ApplySuccAt(succ, t.data[i], ((i - 1) % t.shape[Len(t.shape)]) + 1)]]

\* the successor sets a matmul node of n output columns is tried with
ColVec(n, d) == [j \in 1..n |-> j + d]

SuccOps(n) ==
    { UnaryAOp("Mul", <<n>>, ColVec(n, 1)),
      UnaryAOp("Add", <<n>>, ColVec(n, -2)),
      UnaryAOp("Sub", <<n>>, ColVec(n, 0)),
      UnaryAOp("Mul", <<n + 1>>, ColVec(n + 1, 1)),
      UnaryAOp("Add", <<1, n>>, ColVec(n, 0)),
      ScalarMax(1), ScalarMin(2),
      ScalarMinMax(2, 0), ScalarMinMax(0, 2),
      OtherOp }

Layers(n) ==
    {<<>>} \cup {<<s>> : s \in SuccOps(n)}
           \cup {<<UnaryAOp("Mul", <<n>>, ColVec(n, 1)), ScalarMax(1)>>}

\* ------------------------------------------------------------ pulsify
\* a pulsed fact: the pulse shape, the streaming axis, the stream's length
streaming_shape(fact) == [fact.shape EXCEPT ![fact.axis + 1] = fact.dim]

\* MatMulUnaryA::pulsify: the node chained into the target model, if any
PulsedFact(fact, cshape_pulse, cshape_full) ==
    IF cshape_pulse.status # "ok" THEN [status |-> cshape_pulse.status, fact |-> fact]
    ELSE IF cshape_full.status # "ok" THEN [status |-> cshape_full.status, fact |-> fact]
    ELSE [status |-> "ok",
          fact |-> [shape |-> cshape_pulse.c, axis |-> fact.axis,
                    dim |-> cshape_full.c[fact.axis + 1]]]

\* a variant whose axis test is off by one
pulsifyOffByOne(bt, fact) ==
    IF fact.axis > Len(fact.shape) - 1
    THEN [status |-> "k_axis", fact |-> fact]
    ELSE PulsedFact(fact, infer_shapes(fact.shape, bt.shape),
                    infer_shapes(streaming_shape(fact), bt.shape))

\* MatMulUnaryA::pulsify
pulsify(bt, fact) ==
    IF fact.axis >= Len(fact.shape) - 1
    THEN [status |-> "k_axis", fact |-> fact]
    ELSE PulsedFact(fact, infer_shapes(fact.shape, bt.shape),
                    infer_shapes(streaming_shape(fact), bt.shape))

\* ------------------------------------------------------------- state
VARIABLES
    a_shape,    \* the shape of A, known when the graph is built
    b,          \* the tensor B (an operand, or the constant of MatMulUnaryA)
    a,          \* the tensor A an evaluation is given
    task,       \* the operation in progress
    geo,        \* the geometry of the running generic evaluation
    c,          \* the output buffer of the running generic evaluation
    cell,       \* batch cells processed so far
    ret,        \* the tensor or failure an evaluation returned
    op,         \* the op codegen put at the node
    succs,      \* the successors of the node, as the last fuse saw them
    patch,      \* what the last fuse returned
    log,        \* each successful fuse, in fusion order: the successor it
                \* absorbed and the post-ops it appended
    cost,       \* the FMA count a cost call reported
    pulse,      \* the fact a pulsify call was given
    target,     \* the nodes chained into the target pulsed model
    steps       \* each iteration the batch loop completed, in order: its
                \* index, where it read A and B, the offsets of C it stored to

vars == <<a_shape, b, a, task, geo, c, cell, ret, op, succs, patch, log, cost,
          pulse, target, steps>>

NoRet == Failed("none")
NoTensor == [shape |-> <<>>, data |-> <<>>]
NoCost == [status |-> "none", fma |-> 0]
NoFact == [shape |-> <<>>, axis |-> 0, dim |-> 0]

Init ==
    /\ a_shape \in Shapes
    /\ \E sb \in Shapes : b = TensorB(sb)
    /\ a = NoTensor
    /\ task = "idle"
    /\ geo = NoGeo("none")
    /\ c = <<>>
    /\ cell = 0
    /\ ret = NoRet
    /\ op = NoOp("none")
    /\ succs = <<>>
    /\ patch = NoPatch("unset")
    /\ log = <<>>
    /\ cost = NoCost
    /\ pulse = NoFact
    /\ target = <<>>
    /\ steps = <<>>

\* ---- MatMul::eval -> eval_t, one action per step of the batch loop
EvalStart ==
    /\ task = "idle"
    /\ \E seed \in Seeds : a' = TensorA(a_shape, seed)
    /\ \E g \in {GeoNew(a_shape, b.shape)} :
           \/ /\ g.status = "ok"
              /\ \E junk \in Junk : c' = Uninitialized(g.c_shape, junk)
              /\ geo' = g
              /\ task' = "eval"
              /\ UNCHANGED ret
           \/ /\ g.status # "ok"
              /\ ret' = Failed(g.status)
              /\ task' = "done"
              /\ UNCHANGED <<geo, c>>
    /\ UNCHANGED <<a_shape, b, cell, op, succs, patch, log, cost, pulse, target, steps>>

EvalStep ==
    /\ task = "eval"
    /\ cell < Prod(geo.c_shape_prefix)
    /\ \E prefix \in {indices(geo.c_shape_prefix)[cell + 1]} :
           IF CellReadsOutside(geo, b.data, prefix)
           THEN \/ \E junk \in Junk :
                     /\ c' = EvalCell(geo, a.data, b.data, c, prefix, junk)
                     /\ cell' = cell + 1
                     /\ steps' = Append(steps, StepOf(geo, prefix, junk))
                     /\ UNCHANGED <<task, ret>>
                \/ /\ task' = "done"
                   /\ ret' = Failed("crash")
                   /\ UNCHANGED <<c, cell, steps>>
           ELSE /\ c' = EvalCell(geo, a.data, b.data, c, prefix, 0)
                /\ cell' = cell + 1
                /\ steps' = Append(steps, StepOf(geo, prefix, 0))
                /\ UNCHANGED <<task, ret>>
    /\ UNCHANGED <<a_shape, b, a, geo, op, succs, patch, log, cost, pulse, target>>

EvalReturn ==
    /\ task = "eval"
    /\ cell = Prod(geo.c_shape_prefix)
    /\ ret' = [status |-> "ok", shape |-> geo.c_shape, data |-> c]
    /\ task' = "done"
    /\ UNCHANGED <<a_shape, b, a, geo, c, cell, op, succs, patch, log, cost, pulse, target, steps>>

\* ---- MatMul::cost
CostMatMul ==
    /\ task = "idle"
    /\ cost' = MatMulCost(a_shape, b.shape)
    /\ task' = "done"
    /\ UNCHANGED <<a_shape, b, a, geo, c, cell, ret, op, succs, patch, log, pulse, target, steps>>

\* ---- MatMulUnaryA::codegen
CodegenUnaryA ==
    /\ task = "idle"
    /\ \E junk \in Junk, crash \in BOOLEAN :
          \E o \in {Codegen(a_shape, b, junk)} :
             /\ crash => o.kind \in {"SimpleB", "ImplA"} /\ PackingReadsOutside(o.geo, b)
             /\ op' = IF crash THEN NoOp("crash") ELSE o
             /\ task' = IF ~crash /\ o.kind \in {"SimpleB", "ImplA"} THEN "op" ELSE "done"
    /\ UNCHANGED <<a_shape, b, a, geo, c, cell, ret, succs, patch, log, cost, pulse, target, steps>>

\* ---- MatMulUnaryImplASimpleB::fuse on a node with the successors `layer`
Fuse ==
    /\ task = "op"
    /\ op.kind = "SimpleB"
    /\ patch.status # "some"
    /\ Len(log) < MaxFuse
    /\ \E layer \in Layers(op.geo.n) :
          /\ succs' = layer
          /\ patch' = fuse(op, layer)
          /\ \E f \in {fused_micro_op(op, single_succ(layer).op)} :
                log' = IF Len(layer) = 1 /\ f.some
                       THEN Append(log, [succ |-> layer[1], ops |-> f.ops])
                       ELSE log
    /\ UNCHANGED <<a_shape, b, a, task, geo, c, cell, ret, op, cost, pulse, target, steps>>

\* ---- the pass takes fuse's answer: with a patch, the graph replaces the
\* node and its successor with the fused node; without one it goes on
ApplyPatch ==
    /\ task = "op"
    /\ patch.status \in {"some", "none"}
    /\ op' = IF patch.status = "some" THEN patch.op ELSE op
    /\ patch' = NoPatch("unset")
    /\ succs' = <<>>
    /\ UNCHANGED <<a_shape, b, a, task, geo, c, cell, ret, log, cost, pulse, target, steps>>

\* ---- eval of the op at the node
OpEval ==
    /\ task = "op"
    /\ patch.status = "unset"
    /\ \E seed \in Seeds, junk \in Junk :
          \E at \in {TensorA(a_shape, seed)} :
             /\ a' = at
             /\ ret' = IF op.kind = "SimpleB" THEN SimpleBEval(op, at, junk)
                       ELSE ImplAEval(op, at, junk)
    /\ task' = "done"
    /\ UNCHANGED <<a_shape, b, geo, c, cell, op, succs, patch, log, cost, pulse, target, steps>>

\* ---- cost of the op at the node
OpCost ==
    /\ task = "op"
    /\ patch.status = "unset"
    /\ cost' = [status |-> "ok",
                fma |-> IF op.kind = "SimpleB" THEN SimpleBCost(op) ELSE ImplACost(op)]
    /\ task' = "done"
    /\ UNCHANGED <<a_shape, b, a, geo, c, cell, ret, op, succs, patch, log, pulse, target, steps>>

\* ---- MatMulUnaryA::pulsify on a fact of A's shape
Pulsify ==
    /\ task = "idle"
    /\ Len(a_shape) >= 1
    /\ \E axis \in 0..(Len(a_shape) - 1), dim \in 1..MaxStream :
          \E r \in {pulsify(b, [shape |-> a_shape, axis |-> axis, dim |-> dim])} :
              /\ pulse' = [shape |-> a_shape, axis |-> axis, dim |-> dim]
              /\ ret' = Failed(r.status)
              /\ target' = IF r.status = "ok" THEN Append(target, r.fact) ELSE target
    /\ task' = "done"
    /\ UNCHANGED <<a_shape, b, a, geo, c, cell, op, succs, patch, log, cost, steps>>

Next ==
    \/ EvalStart
    \/ EvalStep
    \/ EvalReturn
    \/ CostMatMul
    \/ CodegenUnaryA
    \/ Fuse
    \/ ApplyPatch
    \/ OpEval
    \/ OpCost
    \/ Pulsify

Spec == Init /\ [][Next]_vars

\* ---- the operations on a graph that no fusion pass runs over
NextOps ==
    \/ EvalStart
    \/ EvalStep
    \/ EvalReturn
    \/ CostMatMul
    \/ CodegenUnaryA
    \/ OpEval
    \/ OpCost
    \/ Pulsify

SpecOps == Init /\ [][NextOps]_vars

\* ---- the fusion pass over a MatMulUnaryA node that codegen turns into a
\* MatMulUnaryImplASimpleB: B of rank 2, A a matrix or a batch of matrices
InitFusion ==
    /\ Init
    /\ Len(a_shape) \in {2, 3}
    /\ Len(b.shape) = 2

NextFusion ==
    \/ CodegenUnaryA
    \/ Fuse
    \/ ApplyPatch
    \/ OpEval
    \/ OpCost

SpecFusion == InitFusion /\ [][NextFusion]_vars

\* ------------------------------------------------------------ properties
\* the K dimensions of the operands after rank normalization
KOfA(ashape) == IF Len(ashape) = 0 THEN 1 ELSE ashape[Len(ashape)]
KOfB(bshape) == IF Len(bshape) < 2 THEN (IF Len(bshape) = 0 THEN 1 ELSE bshape[1])
                ELSE bshape[Len(bshape) - 1]
KMatch == KOfA(a_shape) = KOfB(b.shape)

\* the generic evaluation has been started on (a, b)
EvalStarted == a # NoTensor /\ op.kind = "none"

\* C1: a geometry is only ever built, and MatMul eval only ever proceeds to
\* return a tensor, when the K dimensions agree: bc_a[-1] = bc_b[-2].
C1_KMismatchRejected ==
    /\ geo.status = "ok" =>
          geo.bc_a_shape[Len(geo.bc_a_shape)] = geo.bc_b_shape[Len(geo.bc_b_shape) - 1]
    /\ (EvalStarted /\ ~KMatch) => (task = "done" /\ ret.status \notin {"ok", "none"})

\* the normalized operand shapes, as the specification describes them
ExpectedBcA ==
    LeftPad(IF Len(a_shape) < 2 THEN <<1>> \o a_shape ELSE a_shape,
            IF Len(b.shape) < 2 THEN Len(b.shape) + 1 ELSE Len(b.shape))
ExpectedBcB ==
    LeftPad(IF Len(b.shape) < 2 THEN Append(b.shape, 1) ELSE b.shape,
            IF Len(a_shape) < 2 THEN Len(a_shape) + 1 ELSE Len(a_shape))
PrefixClash ==
    \E i \in 1..(Len(ExpectedBcA) - 2) :
        /\ ExpectedBcA[i] # ExpectedBcB[i]
        /\ ExpectedBcA[i] # 1
        /\ ExpectedBcB[i] # 1

ShapesAsSpecified ==
    /\ geo.status = "ok"
    /\ geo.bc_a_shape = ExpectedBcA
    /\ geo.bc_b_shape = ExpectedBcB
    /\ Len(geo.bc_a_shape) = Len(geo.bc_b_shape)
    /\ Len(geo.bc_a_shape) = Len(geo.c_shape)
    /\ Len(geo.c_shape) >= 2
    /\ \A i \in 1..(Len(geo.c_shape) - 2) :
          geo.c_shape[i] = Max2(geo.bc_a_shape[i], geo.bc_b_shape[i])
    /\ geo.c_shape[Len(geo.c_shape) - 1] = geo.bc_a_shape[Len(geo.bc_a_shape) - 1]
    /\ geo.c_shape[Len(geo.c_shape)] = geo.bc_b_shape[Len(geo.bc_b_shape)]
    /\ (ret.status = "ok" => ret.shape = geo.c_shape)

\* C2: for every pair of input shapes, shape inference fails with a
\* broadcast error when some prefix axis has two different dims neither of
\* which is 1, and otherwise yields bc_a, bc_b, c_shape of one common rank
\* >= 2 as specified; the tensor MatMul eval returns has exactly c_shape.
C2_InferShapes ==
    EvalStarted =>
        IF PrefixClash THEN task = "done" /\ ret.status = "broadcast"
        ELSE ShapesAsSpecified

\* C2 with the pair of two rank-0 shapes set aside
C2_InferShapesButScalars ==
    (Len(a_shape) > 0 \/ Len(b.shape) > 0) => C2_InferShapes

\* the op at the node has been evaluated on a
OpEvaluated == task = "done" /\ ret.status = "ok" /\ op.kind \in {"SimpleB", "ImplA"}

\* C3: for A of rank >= 2 and B of rank 2 with matching K, the unfused
\* MatMulUnaryImplASimpleB evaluates A to the tensor (shape and elements)
\* that the generic MatMul eval gives for (A, B).
C3_SimpleBEqualsMatMul ==
    (OpEvaluated /\ op.kind = "SimpleB" /\ op.non_linear = <<>>
        /\ Len(a_shape) >= 2 /\ KMatch)
    => \A junk \in Junk : ret = eval_t(a, b, junk)

\* an A with several rows collapsed from its leading axes has been evaluated
C3_Witness ==
    /\ OpEvaluated /\ op.kind = "SimpleB" /\ op.non_linear = <<>> /\ KMatch
    /\ Len(a_shape) >= 3
    /\ Prod(Prefix(a_shape)) > 1
    /\ op.geo.m > a_shape[Len(a_shape) - 1]
    /\ op.geo.k > 1

\* codegen has run on (a_shape, b)
CodegenDone == op.kind # "none"

\* C4: for every constant B of rank other than 2 whose prefix broadcasts
\* with A's and whose K matches, MatMulUnaryImplA is built without failure
\* and evaluates A to what the generic MatMul eval gives for (A, B).
C4_ImplAEqualsMatMul ==
    (CodegenDone /\ Len(b.shape) # 2 /\ KMatch /\ ~PrefixClash
        /\ (Len(a_shape) > 0 \/ Len(b.shape) > 0))
    => /\ op.kind = "ImplA"
       /\ OpEvaluated => \A junk \in Junk : ret = eval_t(a, b, junk)

\* C4 for the constants B of rank 3 and more
C4_ImplAEqualsMatMulRank3 ==
    Len(b.shape) >= 3 => C4_ImplAEqualsMatMul

\* the post-ops of the fusions log[1..n], concatenated in fusion order
RECURSIVE ConcatOps(_, _)
ConcatOps(l, n) == IF n = 0 THEN <<>> ELSE ConcatOps(l, n - 1) \o l[n].ops

\* the op as it was before its last fusion
BeforeLastFusion == [op EXCEPT !.non_linear = ConcatOps(log, Len(log) - 1)]

\* C5: evaluating a fused MatMulUnaryImplASimpleB on x gives the tensor that
\* evaluating the op before that fusion on x and then applying the absorbed
\* successor gives, for every successor of the fusion table.
C5_FusionPreservesSemantics ==
    (OpEvaluated /\ op.kind = "SimpleB" /\ Len(log) > 0)
    => \A junk \in Junk :
          ret = ApplySucc(log[Len(log)].succ, SimpleBEval(BeforeLastFusion, a, junk))

\* a clamp whose bounds are crossed: the operand of min is below that of max
Crossed(succ) == succ.kind = "ScalarMinMax" /\ succ.min < succ.max

\* C5 for the fusions that absorb no clamp with crossed bounds
C5_FusionPreservesSemanticsUncrossed ==
    (\A i \in 1..Len(log) : ~Crossed(log[i].succ)) => C5_FusionPreservesSemantics

\* what a clamp's bounds are in ScalarMinMax: the op computes min(max(x, max), min),
\* so the lower bound is its `max` field and the upper bound its `min` field
ClampLo(succ) == succ.max
ClampHi(succ) == succ.min

\* fuse has been called on the successors `succs` and returned
FuseReturned == patch.status \in {"none", "some"}

\* the post-ops the patch's op carries beyond those of the receiver
Appended ==
    SubSeq(patch.op.non_linear, Len(op.non_linear) + 1, Len(patch.op.non_linear))

\* C6: on a single successor of the fusion table, fuse appends exactly
\* Min(hi), Max(lo), in that order, for a clamp to [lo, hi], and exactly one
\* post-op for the other rows: PerColMul(b'), PerColAdd(b'), Max(v), Min(v).
C6_AppendedPostOps ==
    (FuseReturned /\ Len(succs) = 1)
    => LET s == succs[1]
       IN  /\ s.kind = "ScalarMinMax" =>
                patch.status = "some" /\ Appended = <<FMin(ClampHi(s)), FMax(ClampLo(s))>>
           /\ s.kind = "ScalarMax" =>
                patch.status = "some" /\ Appended = <<FMax(s.max)>>
           /\ s.kind = "ScalarMin" =>
                patch.status = "some" /\ Appended = <<FMin(s.min)>>
           /\ (s.kind = "UnaryAOp" /\ s.b_shape = <<op.geo.n>> /\ s.mini_op = "Mul") =>
                patch.status = "some" /\ Appended = <<PerColMul(s.b)>>
           /\ (s.kind = "UnaryAOp" /\ s.b_shape = <<op.geo.n>> /\ s.mini_op = "Add") =>
                patch.status = "some" /\ Appended = <<PerColAdd(s.b)>>

\* fuse returned the patch for a clamp with distinct bounds
C6_Witness ==
    /\ patch.status = "some"
    /\ Len(succs) = 1
    /\ succs[1].kind = "ScalarMinMax"
    /\ ClampLo(succs[1]) < ClampHi(succs[1])
    /\ Len(Appended) = 2

\* C7: pulsify fails, and chains no node into the target model, whenever
\* the pulse axis is the innermost axis of A; for an axis below it, it does
\* not fail for that reason.
C7_PulsifyRejectsKAxis ==
    pulse # NoFact =>
        /\ pulse.axis = Len(pulse.shape) - 1 => ret.status = "k_axis" /\ target = <<>>
        /\ pulse.axis < Len(pulse.shape) - 1 => ret.status # "k_axis"

\* pulsify was refused on the K axis of an A of rank 2 or more
C7_Witness ==
    /\ pulse # NoFact
    /\ Len(pulse.shape) >= 2
    /\ pulse.axis = Len(pulse.shape) - 1
    /\ ret.status = "k_axis"

\* prod(c_shape_prefix) * m * k * n of the geometry of (A, B)
ExpectedFma ==
    LET g == GeoNew(a_shape, b.shape)
    IN  Prod(g.c_shape_prefix) * g.m * g.k * g.n

\* C8: for shapes with matching K, every cost call (MatMul, and the two
\* specialised ops built by codegen) reports prod(c_shape_prefix) * m * k * n.
C8_CostIsFmaCount ==
    (cost.status = "ok" /\ KMatch) => cost.fma = ExpectedFma

\* a specialised op over several batch cells reported its cost
C8_Witness ==
    /\ cost.status = "ok" /\ KMatch
    /\ op.kind \in {"SimpleB", "ImplA"}
    /\ Prod(Prefix(op.c_shape)) > 1
    /\ cost.fma > 1

\* C9: the op at the node carries the post-ops of the fusions applied so
\* far, concatenated in fusion order; a successful fuse returns an op whose
\* list is the receiver's list followed by the appended post-ops, leaves the
\* receiver as it was, and changes no other field of the op.
C9_PostOpsAppendOnly ==
    op.kind = "SimpleB" =>
        /\ op.non_linear =
              ConcatOps(log, IF patch.status = "some" THEN Len(log) - 1 ELSE Len(log))
        /\ \E junk \in Junk : [op EXCEPT !.non_linear = <<>>] = SimpleBNew(a_shape, b, junk)
        /\ patch.status = "some" =>
              /\ patch.op = [op EXCEPT !.non_linear = ConcatOps(log, Len(log))]
              /\ Len(patch.op.non_linear) > Len(op.non_linear)

\* a second fusion returned its patch, on an op that carried post-ops already
C9_Witness ==
    /\ patch.status = "some"
    /\ Len(log) = 2
    /\ Len(op.non_linear) >= 1
    /\ Len(patch.op.non_linear) >= 3

\* the successors are not exactly one op of the fusion table
NotFusable(layer, n) ==
    \/ Len(layer) # 1
    \/ /\ Len(layer) = 1
       /\ \/ layer[1].kind \notin {"UnaryAOp", "ScalarMax", "ScalarMin", "ScalarMinMax"}
          \/ layer[1].kind = "UnaryAOp" /\ layer[1].b_shape # <<n>>
          \/ layer[1].kind = "UnaryAOp" /\ layer[1].mini_op \notin {"Mul", "Add"}

\* C10: when the node has not exactly one successor, or the successor is not
\* in the fusion table, fuse returns no patch and no error and leaves the op
\* and the record of fusions as they were; a repeated pass changes nothing.
C10_NoPatchOutsideTable ==
    [][(Fuse /\ NotFusable(succs', op.geo.n))
         => /\ patch'.status = "none"
            /\ op' = op
            /\ log' = log
            /\ ((patch.status = "none" /\ succs' = succs) => UNCHANGED vars)]_vars

\* fuse returned no patch for a subtraction of a constant of shape [n]
C10_Witness ==
    /\ patch.status = "none"
    /\ Len(succs) = 1
    /\ succs[1].kind = "UnaryAOp"
    /\ succs[1].mini_op = "Sub"
    /\ succs[1].b_shape = <<op.geo.n>>

\* the largest number of batch cells whose every visiting order is replayed
MaxPerm == 4

\* the generic evaluation is in its batch loop, or has left it
InLoop == geo.status = "ok"
LoopEnded == InLoop /\ task = "done" /\ ret.status = "ok"

\* p comes before q in row-major (lexicographic, last axis fastest) order
RowMajorBefore(p, q) ==
    \E j \in 1..Len(p) : p[j] < q[j] /\ \A l \in 1..(j - 1) : p[l] = q[l]

\* the element offset of the multi-index idx in a row-major buffer of `shape`
RECURSIVE OffsetIn(_, _, _)
OffsetIn(idx, shape, j) ==
    IF j > Len(idx) THEN 0
    ELSE idx[j] * Prod(SubSeq(shape, j + 1, Len(shape))) + OffsetIn(idx, shape, j + 1)

\* idx with every axis clamped to the last index of `shape` on that axis
Clamped(idx, shape) == [j \in 1..Len(idx) |-> Min2(idx[j], shape[j] - 1)]

\* the offsets of the m x n matrix of C at the batch index idx
CSlice(idx) ==
    {OffsetIn(idx, geo.c_shape, 1) + r * geo.n + col :
        r \in 0..(geo.m - 1), col \in 0..(geo.n - 1)}

\* how many stores of the steps so far went to the offset off
StoresTo(off) ==
    Cardinality({ix \in (1..Len(steps)) \X (1..(geo.m * geo.n)) :
                    steps[ix[1]].stores[ix[2]] = off})

\* every offset any step stored to
AllStores == UNION {{st.stores[x] : x \in 1..Len(st.stores)} : st \in {steps[i] : i \in 1..Len(steps)}}

\* the steps replayed on the buffer cmem in the order ord[k], ord[k+1], ...
RECURSIVE Replay(_, _, _)
Replay(ord, k, cmem) ==
    IF k > Len(steps) THEN cmem
    ELSE Replay(ord, k + 1,
                EvalCell(geo, a.data, b.data, cmem, steps[ord[k]].prefix, steps[ord[k]].junk))

Reversed == [k \in 1..Len(steps) |-> Len(steps) + 1 - k]

\* the visiting orders that are replayed: the reverse order, and every order
\* when there are at most MaxPerm cells
Orders ==
    {Reversed} \cup (IF Len(steps) <= MaxPerm THEN Permutations(1..Len(steps)) ELSE {})

\* C11: the batch loop of eval_t visits the multi-indices of c_shape_prefix
\* in row-major order, each once; the step for an index reads A and B at the
\* index clamped to each operand's dims and stores exactly to the matrix of C
\* at the index itself; when the loop ends every cell of C has been stored to
\* exactly once, nothing outside C has, and replaying the steps in another
\* order gives the same tensor.
C11_BatchLoop ==
    InLoop =>
        /\ Len(steps) = cell
        /\ \A i \in 1..Len(steps) :
              /\ Len(steps[i].prefix) = Len(geo.c_shape_prefix)
              /\ \A j \in 1..Len(steps[i].prefix) :
                    steps[i].prefix[j] \in 0..(geo.c_shape_prefix[j] - 1)
              /\ i > 1 => RowMajorBefore(steps[i - 1].prefix, steps[i].prefix)
              /\ steps[i].a_ptr =
                    OffsetIn(Clamped(steps[i].prefix, geo.bc_a_shape), geo.bc_a_shape, 1)
              /\ steps[i].b_ptr =
                    OffsetIn(Clamped(steps[i].prefix, geo.bc_b_shape), geo.bc_b_shape, 1)
              /\ {steps[i].stores[x] : x \in 1..Len(steps[i].stores)} = CSlice(steps[i].prefix)
        /\ AllStores \subseteq 0..(Prod(geo.c_shape) - 1)
        /\ \A off \in AllStores : StoresTo(off) = 1
        /\ LoopEnded =>
              /\ Len(steps) = Prod(geo.c_shape_prefix)
              /\ AllStores = 0..(Prod(geo.c_shape) - 1)
              /\ \A ord \in Orders, junk \in Junk :
                    Replay(ord, 1, Uninitialized(geo.c_shape, junk)) = ret.data

\* a loop over a 2 x 2 grid of batch cells has ended, A broadcast along one
\* prefix axis and B along the other
C11_Witness ==
    /\ LoopEnded
    /\ Len(geo.c_shape_prefix) = 2
    /\ Len(steps) = 4
    /\ \E j \in 1..2 : geo.bc_a_shape[j] = 1 /\ geo.c_shape_prefix[j] > 1
    /\ \E j \in 1..2 : geo.bc_b_shape[j] = 1 /\ geo.c_shape_prefix[j] > 1
====
